---- MODULE Spec2Model ----
(***************************************************************************)
(* House price prediction service (src/app.py) and its offline training    *)
(* script (src/model/train_model.py).                                       *)
(*                                                                         *)
(* Numbers are exact rationals n/d standing for Python/numpy doubles, with  *)
(* the three non-finite doubles nan, inf and -inf; any magnitude above      *)
(* MaxFloat overflows to an infinity, as a double above DBL_MAX does.       *)
(***************************************************************************)
EXTENDS Integers, Sequences, FiniteSets, TLC

(* ------------------------------ bounds -------------------------------- *)

\* largest finite magnitude of the modelled double (stands for DBL_MAX)
MaxFloat == 1000000

\* most keys a request body carries under Spec
MaxKeys == 2

\* concurrent requests under SpecConc
NumClients == 2

(* --------------------------- double arithmetic ------------------------ *)

Abs(i) == IF i < 0 THEN -i ELSE i

RECURSIVE GCD(_, _)
GCD(a, b) == IF b = 0 THEN a ELSE GCD(b, a % b)

NaN == [k |-> "nan", n |-> 0, d |-> 1]

PosInf == [k |-> "inf", n |-> 0, d |-> 1]

NegInf == [k |-> "ninf", n |-> 0, d |-> 1]

SignedInf(s) == IF s < 0 THEN NegInf ELSE PosInf

\* the double nearest n/d (d # 0): the reduced fraction, or an infinity
Fin(n, d) ==
    LET g  == GCD(Abs(n), Abs(d))
        nn == IF d < 0 THEN -(n \div g) ELSE n \div g
        dd == Abs(d) \div g
    IN  IF Abs(nn) > MaxFloat * dd
        THEN SignedInf(nn)
        ELSE [k |-> "fin", n |-> nn, d |-> dd]

Num(i) == Fin(i, 1)

IsFinite(x) == x.k = "fin"

IsNaN(x) == x.k = "nan"

Sign(x) ==
    CASE x.k = "inf"  -> 1
      [] x.k = "ninf" -> -1
      [] x.k = "nan"  -> 0
      [] OTHER        -> IF x.n > 0 THEN 1 ELSE IF x.n < 0 THEN -1 ELSE 0

FNeg(x) ==
    CASE x.k = "inf"  -> NegInf
      [] x.k = "ninf" -> PosInf
      [] x.k = "nan"  -> NaN
      [] OTHER        -> [x EXCEPT !.n = -x.n]

FAdd(a, b) ==
    CASE IsNaN(a) \/ IsNaN(b)              -> NaN
      [] IsFinite(a) /\ IsFinite(b)        -> Fin(a.n * b.d + b.n * a.d, a.d * b.d)
      [] IsFinite(a)                       -> b
      [] IsFinite(b)                       -> a
      [] OTHER                             -> IF a.k = b.k THEN a ELSE NaN

FSub(a, b) == FAdd(a, FNeg(b))

FMul(a, b) ==
    CASE IsNaN(a) \/ IsNaN(b)       -> NaN
      [] IsFinite(a) /\ IsFinite(b) ->
            IF a.n = 0 \/ b.n = 0
            THEN Num(0)
            ELSE IF Abs(a.n) > (MaxFloat * a.d * b.d) \div Abs(b.n)
                 THEN SignedInf(Sign(a) * Sign(b))
                 ELSE Fin(a.n * b.n, a.d * b.d)
      [] OTHER                      ->
            IF Sign(a) = 0 \/ Sign(b) = 0 THEN NaN ELSE SignedInf(Sign(a) * Sign(b))

\* numpy true division: x/0 is a signed infinity, 0/0 is nan, never an exception
FDiv(a, b) ==
    CASE IsNaN(a) \/ IsNaN(b)       -> NaN
      [] IsFinite(a) /\ IsFinite(b) ->
            IF b.n = 0
            THEN IF a.n = 0 THEN NaN ELSE SignedInf(Sign(a))
            ELSE Fin(a.n * b.d, a.d * b.n)
      [] IsFinite(a)                -> Num(0)
      [] IsFinite(b)                -> SignedInf(Sign(a) * (IF Sign(b) < 0 THEN -1 ELSE 1))
      [] OTHER                      -> NaN

\* floor(m * n / d) for d > 0, without forming m * n
ScaledFloor(n, d, m) == m * (n \div d) + (m * (n % d)) \div d

\* the integer nearest m * n / d (d > 0), ties to the even integer
RoundHalfEven(n, d, m) ==
    LET f   == ScaledFloor(n, d, m)
        rem == (m * (n % d)) % d
    IN  IF 2 * rem > d THEN f + 1
        ELSE IF 2 * rem < d THEN f
        ELSE IF f % 2 = 0 THEN f ELSE f + 1

\* round(x, ndigits) of a double: non-finite values are returned unchanged
Round(x, ndigits) ==
    LET p == IF ndigits = 2 THEN 100 ELSE 1
    IN  IF IsFinite(x) THEN Fin(RoundHalfEven(x.n, x.d, p), p) ELSE x

(* ------------------------------ JSON values --------------------------- *)

JNum(n, d) == [t |-> "num", n |-> n, d |-> d, s |-> ""]

JText(s) == [t |-> "text", n |-> 0, d |-> 1, s |-> s]

JNull == [t |-> "null", n |-> 0, d |-> 1, s |-> "None"]

JObject == [t |-> "object", n |-> 0, d |-> 1, s |-> "dict"]

JTrue == [t |-> "bool", n |-> 1, d |-> 1, s |-> "True"]

\* the result of evaluating an expression: a value or a raised exception
Ok(v) == [ok |-> TRUE, val |-> v, exc |-> "", msg |-> <<>>]

Raise(exc, msg) == [ok |-> FALSE, val |-> <<>>, exc |-> exc, msg |-> msg]

\* Python float(v) of a decoded JSON value
float(v) ==
    CASE v.t = "num"  -> Ok(Fin(v.n, v.d))
      [] v.t = "bool" -> Ok(Num(v.n))
      [] v.t = "text" ->
            CASE v.s = "nan"  -> Ok(NaN)
              [] v.s = "inf"  -> Ok(PosInf)
              [] v.s = "-inf" -> Ok(NegInf)
              [] v.s = "3.5"  -> Ok(Fin(7, 2))
              [] OTHER        ->
                    Raise("ValueError", <<"could not convert string to float:", v.s>>)
      [] OTHER        ->
            Raise("TypeError",
                  <<"float() argument must be a string or a real number, not", v.s>>)

(* ---------------------------- request bodies -------------------------- *)

ObjectBody(pairs) == [kind |-> "object", pairs |-> pairs]

NullBody == [kind |-> "null", pairs |-> <<>>]

ArrayBody == [kind |-> "array", pairs |-> <<>>]

MalformedBody == [kind |-> "malformed", pairs |-> <<>>]

\* request.get_json(): the decoded body, or the exception of an undecodable one
get_json(body) ==
    IF body.kind = "malformed"
    THEN Raise("BadRequest", <<"400 Bad Request: Failed to decode JSON object">>)
    ELSE Ok(body)

\* dict.get(key, default) on the decoded object (a repeated key keeps its last value)
RECURSIVE DictGet(_, _, _)
DictGet(pairs, key, default) ==
    IF pairs = <<>> THEN default
    ELSE IF pairs[Len(pairs)][1] = key THEN pairs[Len(pairs)][2]
    ELSE DictGet(SubSeq(pairs, 1, Len(pairs) - 1), key, default)

\* data.get(name, 0): an attribute error when the body is not an object
DataGet(data, name) ==
    IF data.kind = "object"
    THEN Ok(DictGet(data.pairs, name, JNum(0, 1)))
    ELSE Raise("AttributeError",
               <<IF data.kind = "null" THEN "'NoneType'" ELSE "'list'",
                 "object has no attribute 'get'">>)

(* ------------------------------ the schema ---------------------------- *)

\* the feature row filled with Latitude and Longitude exchanged
FeatureOrderSwapped ==
    <<"MedInc", "HouseAge", "AveRooms", "AveBedrms",
      "Population", "AveOccup", "Longitude", "Latitude">>

\* the order in which predict fills the feature vector
FeatureOrder ==
    <<"MedInc", "HouseAge", "AveRooms", "AveBedrms",
      "Population", "AveOccup", "Latitude", "Longitude">>

\* the order of the columns the scaler and the model were fitted on
TrainingOrder ==
    <<"MedInc", "HouseAge", "AveRooms", "AveBedrms",
      "Population", "AveOccup", "Latitude", "Longitude">>

Names == {FeatureOrder[i] : i \in 1..Len(FeatureOrder)}

\* the 'default' entries of get_feature_ranges, as JSON numbers
get_feature_ranges ==
    [nm \in Names |->
        CASE nm = "MedInc"     -> JNum(7, 2)
          [] nm = "HouseAge"   -> JNum(25, 1)
          [] nm = "AveRooms"   -> JNum(5, 1)
          [] nm = "AveBedrms"  -> JNum(1, 1)
          [] nm = "Population" -> JNum(1500, 1)
          [] nm = "AveOccup"   -> JNum(3, 1)
          [] nm = "Latitude"   -> JNum(71, 2)
          [] nm = "Longitude"  -> JNum(-239, 2)]

\* the list [float(data.get(name, 0)), ...]: elements are evaluated left to
\* right and the first exception abandons the list
RECURSIVE ExtractFrom(_, _, _)
ExtractFrom(data, i, acc) ==
    IF i > Len(FeatureOrder) THEN Ok(acc)
    ELSE LET got == DataGet(data, FeatureOrder[i])
         IN  IF ~got.ok THEN got
             ELSE LET f == float(got.val)
                  IN  IF ~f.ok THEN f
                      ELSE ExtractFrom(data, i + 1, Append(acc, f.val))

ExtractFeatures(data) == ExtractFrom(data, 1, <<>>)

(* ------------------------ the pickled estimators ---------------------- *)

None == [ty |-> "None"]

\* a fitted StandardScaler: mean_ and scale_, one entry per training column
StandardScaler(mean, scale) == [ty |-> "StandardScaler", mean |-> mean, scale |-> scale]

\* a fitted Ridge: coef_ and intercept_
Ridge(coef, intercept) == [ty |-> "Ridge", coef |-> coef, intercept |-> intercept]

AllFinite(vec) == \A i \in 1..Len(vec) : IsFinite(vec[i])

NoInfinity(vec) == \A i \in 1..Len(vec) : IsFinite(vec[i]) \/ IsNaN(vec[i])

\* scaler.transform(features): the input check (column count, no infinity,
\* nan allowed), then (x - mean_) / scale_ column by column
transform(sc, features) ==
    IF ~NoInfinity(features)
    THEN Raise("ValueError", <<"Input X contains infinity or a value too large for dtype('float64').">>)
    ELSE IF Len(features) # Len(sc.mean)
    THEN Raise("ValueError", <<"X has 8 features, but StandardScaler is expecting a different number">>)
    ELSE Ok([i \in 1..Len(features) |->
                FDiv(FSub(features[i], sc.mean[i]), sc.scale[i])])

\* sum of z[i] * coef[i] for i in 1..k, accumulated left to right
RECURSIVE Dot(_, _, _)
Dot(z, coef, k) ==
    IF k = 0 THEN Num(0)
    ELSE FAdd(Dot(z, coef, k - 1), FMul(z[k], coef[k]))

\* model.predict(features_scaled)[0]: the input check (column count, all
\* finite), then X @ coef_ + intercept_
predict(m, z) ==
    IF ~AllFinite(z)
    THEN Raise("ValueError", <<"Input X contains NaN or infinity.">>)
    ELSE IF Len(z) # Len(m.coef)
    THEN Raise("ValueError", <<"X has 8 features, but Ridge is expecting a different number">>)
    ELSE Ok(FAdd(Dot(z, m.coef, Len(z)), m.intercept))

(* --------------------------- result formatting ------------------------ *)

Digit(i) ==
    CASE i = 0 -> "0" [] i = 1 -> "1" [] i = 2 -> "2" [] i = 3 -> "3" [] i = 4 -> "4"
      [] i = 5 -> "5" [] i = 6 -> "6" [] i = 7 -> "7" [] i = 8 -> "8" [] i = 9 -> "9"

RECURSIVE Digits(_)
Digits(n) == IF n < 10 THEN <<Digit(n)>> ELSE Append(Digits(n \div 10), Digit(n % 10))

\* the digits of n >= 0 with a comma before every full group of three
RECURSIVE Grouped(_)
Grouped(n) ==
    IF n < 1000 THEN Digits(n)
    ELSE Grouped(n \div 1000)
         \o <<",", Digit((n % 1000) \div 100), Digit((n % 100) \div 10), Digit(n % 10)>>

\* format(x, ",.0f"): sign, the integer nearest x (ties to even), grouped;
\* the non-finite doubles print as nan, inf and -inf
FormatGrouped(x) ==
    CASE x.k = "nan"  -> <<"n", "a", "n">>
      [] x.k = "inf"  -> <<"i", "n", "f">>
      [] x.k = "ninf" -> <<"-", "i", "n", "f">>
      [] OTHER        ->
            LET r == RoundHalfEven(Abs(x.n), x.d, 1)
            IN  (IF x.n < 0 THEN <<"-">> ELSE <<>>) \o Grouped(r)

\* the conversion with a factor that has lost a zero
price_usd_short(prediction) == FMul(prediction, Num(10000))

\* lines 79-80: the price in $100K units and in dollars
price_usd(prediction) == FMul(prediction, Num(100000))

\* lines 82-89: the success response
SuccessResponse(prediction) ==
    [status |-> 200,
     body   |-> [success    |-> TRUE,
                 prediction |-> [price_100k      |-> Round(prediction, 2),
                                 price_usd       |-> Round(price_usd(prediction), 0),
                                 price_formatted |-> <<"$">> \o FormatGrouped(price_usd(prediction))]]]

\* lines 52-55: the response of degraded mode
NotLoadedResponse ==
    [status |-> 500,
     body   |-> [success |-> FALSE,
                 error   |-> <<"Model not loaded. Please train the model first.">>]]

\* lines 91-95: the response for any exception raised inside the handler
ErrorResponse(e) ==
    [status |-> 400, body |-> [success |-> FALSE, error |-> e.msg]]

(* ------------------------------ input sets ---------------------------- *)

Consts(n, v) == [i \in 1..n |-> v]

\* scalers a scaler.pkl may hold: two as StandardScaler.fit leaves them, and
\* three it never produces (a zero scale, a negative scale, seven columns)
IdentityScaler == StandardScaler(Consts(8, Num(0)), Consts(8, Num(1)))

FittedScaler ==
    StandardScaler(<<Num(3), Num(25), Num(1), Num(1), Num(0), Num(3), Num(0), Num(0)>>,
                   <<Num(2), Num(1), Num(1), Num(2), Num(1), Num(1), Num(1), Num(2)>>)

ZeroScaler == StandardScaler(Consts(8, Num(0)), [Consts(8, Num(1)) EXCEPT ![1] = Num(0)])

NegativeScaler == StandardScaler(Consts(8, Num(0)), [Consts(8, Num(1)) EXCEPT ![3] = Num(-1)])

ShortScaler == StandardScaler(Consts(7, Num(0)), Consts(7, Num(1)))

ScalerObjs == {IdentityScaler, FittedScaler, ZeroScaler, NegativeScaler, ShortScaler}

UnitModel == Ridge([Consts(8, Num(0)) EXCEPT ![1] = Num(1)], Num(0))

FittedModel ==
    Ridge(<<Fin(1, 2), Num(0), Num(-1), Num(2), Num(0), Num(0), Num(1), Num(1)>>, Fin(1, 4))

ShortModel == Ridge(Consts(7, Num(1)), Num(0))

ModelObjs == {UnitModel, FittedModel, ShortModel}

Absent == [st |-> "absent"]

Unloadable == [st |-> "unloadable"]

Pickled(obj) == [st |-> "ok", obj |-> obj]

\* the model directory as the service may find it at startup
FileSystems ==
    [model  : {Absent, Unloadable} \cup {Pickled(m) : m \in ModelObjs},
     scaler : {Absent, Unloadable} \cup {Pickled(sc) : sc \in ScalerObjs}]

\* values a client may send for a feature
ValuesFor(nm) ==
    CASE nm = "MedInc"     -> {JNum(7, 2), JText("abc"), JNum(40, 1), JText("nan")}
      [] nm = "HouseAge"   -> {JNum(25, 1), JNull}
      [] nm = "AveRooms"   -> {JNum(-2, 1), JText("3.5")}
      [] nm = "AveBedrms"  -> {JNum(900000, 1), JObject}
      [] nm = "Population" -> {JNum(1500, 1), JTrue}
      [] nm = "AveOccup"   -> {JNum(3, 1), JText("inf")}
      [] nm = "Latitude"   -> {JNum(71, 2), JNum(1, 64)}
      [] nm = "Longitude"  -> {JNum(-239, 2), JNum(1, 8)}

Pair(nm, v) == <<nm, v>>

AllPairs == UNION {{Pair(nm, v) : v \in ValuesFor(nm)} : nm \in Names}

DistinctKeys(pairs) == \A i, j \in 1..Len(pairs) : i # j => pairs[i][1] # pairs[j][1]

\* JSON objects of at most n members with distinct keys, in every key order
ObjectsUpTo(n) ==
    UNION {{ObjectBody(ps) : ps \in {q \in [1..k -> AllPairs] : DistinctKeys(q)}} : k \in 0..n}

Bodies == ObjectsUpTo(MaxKeys) \cup {NullBody, ArrayBody, MalformedBody}

\* the bodies sent while requests overlap
ConcBodies ==
    {ObjectBody(<<>>),
     ObjectBody(<<Pair("MedInc", JNum(7, 2))>>),
     ObjectBody(<<Pair("AveRooms", JNum(-2, 1)), Pair("MedInc", JNum(7, 2))>>),
     ObjectBody(<<Pair("MedInc", JText("abc"))>>),
     NullBody}

(* -------------------------------- state ------------------------------- *)

VARIABLES
    fs,        \* the model directory: the states of model.pkl and scaler.pkl
    proc,      \* "boot" before the module-level load, then "serving" or "crashed"
    model,     \* module global: the loaded Ridge, or None
    scaler,    \* module global: the loaded StandardScaler, or None
    opened,    \* the files load_model has opened
    loads,     \* how many times load_model has run
    loadExc,   \* the exception load_model raised ("" when it returned)
    bootFs,    \* the model directory as load_model saw it
    reqs       \* per client: the position and the locals of its predict call

vars == <<fs, proc, model, scaler, opened, loads, loadExc, bootFs, reqs>>

Clients == 1..NumClients

NoResponse == [status |-> 0, body |-> [success |-> FALSE]]

IdleRequest ==
    [pc |-> "idle", body |-> NullBody, features |-> <<>>, features_scaled |-> <<>>,
     prediction |-> Num(0), resp |-> NoResponse]

Init ==
    /\ fs \in FileSystems
    /\ proc = "boot"
    /\ model = None
    /\ scaler = None
    /\ opened = {}
    /\ loads = 0
    /\ loadExc = ""
    /\ bootFs = fs
    /\ reqs = [r \in Clients |-> IdleRequest]

(* ------------------------------- startup ------------------------------ *)

\* load_model with the existence check joined by 'and': with one file absent
\* it goes on to open the files and the missing one then fails to open
load_model_and(dir) ==
    IF dir.model.st = "absent"
    THEN [ok |-> FALSE, exc |-> "FileNotFoundError", opened |-> {},
          model |-> None, scaler |-> None]
    ELSE IF dir.model.st = "unloadable"
    THEN [ok |-> FALSE, exc |-> "UnpicklingError", opened |-> {"model.pkl"},
          model |-> None, scaler |-> None]
    ELSE IF dir.scaler.st = "absent"
    THEN [ok |-> FALSE, exc |-> "FileNotFoundError", opened |-> {"model.pkl"},
          model |-> None, scaler |-> None]
    ELSE IF dir.scaler.st = "unloadable"
    THEN [ok |-> FALSE, exc |-> "UnpicklingError", opened |-> {"model.pkl", "scaler.pkl"},
          model |-> None, scaler |-> None]
    ELSE [ok |-> TRUE, exc |-> "", opened |-> {"model.pkl", "scaler.pkl"},
          model |-> dir.model.obj, scaler |-> dir.scaler.obj]

\* load_model(): existence check of both paths, then open and unpickle the
\* model file, then the scaler file
load_model(dir) ==
    IF dir.model.st = "absent" \/ dir.scaler.st = "absent"
    THEN [ok |-> FALSE, exc |-> "FileNotFoundError", opened |-> {},
          model |-> None, scaler |-> None]
    ELSE IF dir.model.st = "unloadable"
    THEN [ok |-> FALSE, exc |-> "UnpicklingError", opened |-> {"model.pkl"},
          model |-> None, scaler |-> None]
    ELSE IF dir.scaler.st = "unloadable"
    THEN [ok |-> FALSE, exc |-> "UnpicklingError", opened |-> {"model.pkl", "scaler.pkl"},
          model |-> None, scaler |-> None]
    ELSE [ok |-> TRUE, exc |-> "", opened |-> {"model.pkl", "scaler.pkl"},
          model |-> dir.model.obj, scaler |-> dir.scaler.obj]

\* the module-level try/except: only FileNotFoundError is caught; any other
\* exception of load_model ends the import and with it the process
Startup ==
    /\ proc = "boot"
    /\ LET l == load_model(fs)
       IN  /\ opened' = l.opened
           /\ loadExc' = l.exc
           /\ model' = l.model
           /\ scaler' = l.scaler
           /\ proc' = IF l.ok \/ l.exc = "FileNotFoundError" THEN "serving" ELSE "crashed"
    /\ loads' = loads + 1
    /\ bootFs' = fs
    /\ UNCHANGED <<fs, reqs>>

\* train_and_save_model(): a separate script run that (re)writes both pickles
\* with a freshly fitted Ridge and StandardScaler
train_and_save_model ==
    /\ fs # [model |-> Pickled(FittedModel), scaler |-> Pickled(FittedScaler)]
    /\ fs' = [model |-> Pickled(FittedModel), scaler |-> Pickled(FittedScaler)]
    /\ UNCHANGED <<proc, model, scaler, opened, loads, loadExc, bootFs, reqs>>

(* ----------------------------- POST /predict -------------------------- *)

Finish(r, response) ==
    reqs' = [reqs EXCEPT ![r].pc = "done", ![r].resp = response]

\* a request with one of the given bodies reaches the view
Enter(r, bodies) ==
    /\ proc = "serving"
    /\ reqs[r].pc = "idle"
    /\ \E b \in bodies : reqs' = [reqs EXCEPT ![r].pc = "entered", ![r].body = b]
    /\ UNCHANGED <<fs, proc, model, scaler, opened, loads, loadExc, bootFs>>

\* the view with the body decoded ahead of the availability check
CheckAfterDecode(r) ==
    /\ reqs[r].pc = "entered"
    /\ IF ~get_json(reqs[r].body).ok
       THEN Finish(r, ErrorResponse(get_json(reqs[r].body)))
       ELSE IF model = None \/ scaler = None
       THEN Finish(r, NotLoadedResponse)
       ELSE reqs' = [reqs EXCEPT ![r].pc = "checked"]
    /\ UNCHANGED <<fs, proc, model, scaler, opened, loads, loadExc, bootFs>>

\* lines 51-55: the availability check
Check(r) ==
    /\ reqs[r].pc = "entered"
    /\ IF model = None \/ scaler = None
       THEN Finish(r, NotLoadedResponse)
       ELSE reqs' = [reqs EXCEPT ![r].pc = "checked"]
    /\ UNCHANGED <<fs, proc, model, scaler, opened, loads, loadExc, bootFs>>

\* lines 58-70: decode the body and build the feature row
Build(r) ==
    /\ reqs[r].pc = "checked"
    /\ LET data == get_json(reqs[r].body)
       IN  IF ~data.ok THEN Finish(r, ErrorResponse(data))
           ELSE LET row == ExtractFeatures(data.val)
                IN  IF ~row.ok THEN Finish(r, ErrorResponse(row))
                    ELSE reqs' = [reqs EXCEPT ![r].pc = "built", ![r].features = row.val]
    /\ UNCHANGED <<fs, proc, model, scaler, opened, loads, loadExc, bootFs>>

\* line 73 calling fit_transform: the shared scaler is refitted on the row
ScaleRefit(r) ==
    /\ reqs[r].pc = "built"
    /\ LET z == IF scaler = None
                THEN Raise("AttributeError", <<"'NoneType'", "object has no attribute 'transform'">>)
                ELSE transform(scaler, reqs[r].features)
       IN  IF ~z.ok
           THEN Finish(r, ErrorResponse(z)) /\ UNCHANGED scaler
           ELSE /\ reqs' = [reqs EXCEPT ![r].pc = "scaled",
                                        ![r].features_scaled = Consts(Len(z.val), Num(0))]
                /\ scaler' = StandardScaler(reqs[r].features, Consts(Len(z.val), Num(1)))
    /\ UNCHANGED <<fs, proc, model, opened, loads, loadExc, bootFs>>

\* line 73: features_scaled = scaler.transform(features)
Scale(r) ==
    /\ reqs[r].pc = "built"
    /\ LET z == IF scaler = None
                THEN Raise("AttributeError", <<"'NoneType'", "object has no attribute 'transform'">>)
                ELSE transform(scaler, reqs[r].features)
       IN  IF ~z.ok THEN Finish(r, ErrorResponse(z))
           ELSE reqs' = [reqs EXCEPT ![r].pc = "scaled", ![r].features_scaled = z.val]
    /\ UNCHANGED <<fs, proc, model, scaler, opened, loads, loadExc, bootFs>>

\* line 76: prediction = model.predict(features_scaled)[0]
Predict(r) ==
    /\ reqs[r].pc = "scaled"
    /\ LET y == IF model = None
                THEN Raise("AttributeError", <<"'NoneType'", "object has no attribute 'predict'">>)
                ELSE predict(model, reqs[r].features_scaled)
       IN  IF ~y.ok THEN Finish(r, ErrorResponse(y))
           ELSE reqs' = [reqs EXCEPT ![r].pc = "predicted", ![r].prediction = y.val]
    /\ UNCHANGED <<fs, proc, model, scaler, opened, loads, loadExc, bootFs>>

\* lines 78-89: convert and answer
Respond(r) ==
    /\ reqs[r].pc = "predicted"
    /\ Finish(r, SuccessResponse(reqs[r].prediction))
    /\ UNCHANGED <<fs, proc, model, scaler, opened, loads, loadExc, bootFs>>

\* the whole view on given globals: what one request returns when run alone
PredictView(m, sc, body) ==
    IF m = None \/ sc = None THEN NotLoadedResponse
    ELSE LET data == get_json(body)
         IN  IF ~data.ok THEN ErrorResponse(data)
             ELSE LET row == ExtractFeatures(data.val)
                  IN  IF ~row.ok THEN ErrorResponse(row)
                      ELSE LET z == transform(sc, row.val)
                           IN  IF ~z.ok THEN ErrorResponse(z)
                               ELSE LET y == predict(m, z.val)
                                    IN  IF ~y.ok THEN ErrorResponse(y)
                                        ELSE SuccessResponse(y.val)

(* --------------------------- specifications --------------------------- *)

\* one client, every body of Bodies
Next ==
    \/ Startup
    \/ train_and_save_model
    \/ Enter(1, Bodies)
    \/ Check(1)
    \/ Build(1)
    \/ Scale(1)
    \/ Predict(1)
    \/ Respond(1)

Spec == Init /\ [][Next]_vars

\* NumClients overlapping requests, bodies of ConcBodies
NextConc ==
    \/ Startup
    \/ train_and_save_model
    \/ \E r \in Clients : Enter(r, ConcBodies)
    \/ \E r \in Clients : Check(r)
    \/ \E r \in Clients : Build(r)
    \/ \E r \in Clients : Scale(r)
    \/ \E r \in Clients : Predict(r)
    \/ \E r \in Clients : Respond(r)

SpecConc == Init /\ [][NextConc]_vars

(* ------------------------- auxiliary definitions ----------------------- *)

Loaded == model # None /\ scaler # None

\* the loaded artifacts satisfy the data model: eight columns each, scale > 0
WellFormed ==
    /\ Loaded
    /\ Len(scaler.mean) = Len(FeatureOrder)
    /\ Len(scaler.scale) = Len(FeatureOrder)
    /\ Len(model.coef) = Len(FeatureOrder)
    /\ \A i \in 1..Len(scaler.scale) : Sign(scaler.scale[i]) > 0

Done(r) == reqs[r].pc = "done"

Succeeded(r) == Done(r) /\ reqs[r].resp.status = 200

\* the value a JSON object holds for a name, found by searching its members
Present(pairs, nm) == \E i \in 1..Len(pairs) : pairs[i][1] = nm

Member(pairs, nm) == pairs[CHOOSE i \in 1..Len(pairs) : pairs[i][1] = nm][2]

\* the double the mapping gives a schema slot: its member coerced, else 0
SlotValue(pairs, nm) ==
    IF Present(pairs, nm) THEN float(Member(pairs, nm)).val ELSE Num(0)

\* every ordering of the members of a JSON object
Orderings(pairs) ==
    LET n == Len(pairs)
    IN  {[i \in 1..n |-> pairs[f[i]]] :
            f \in {g \in [1..n -> 1..n] : \A i, j \in 1..n : i # j => g[i] # g[j]}}

\* the first schema name whose member is present and is not coercible
BadNames(pairs) ==
    {nm \in Names : Present(pairs, nm) /\ ~float(Member(pairs, nm)).ok}

FirstBad(pairs) ==
    FeatureOrder[CHOOSE i \in 1..Len(FeatureOrder) :
                    /\ FeatureOrder[i] \in BadNames(pairs)
                    /\ \A j \in 1..(i - 1) : FeatureOrder[j] \notin BadNames(pairs)]

\* the words of an error text
Mentions(msg, word) == \E i \in 1..Len(msg) : msg[i] = word

\* the object with every omitted schema name added with its declared default
RECURSIVE FillFrom(_, _)
FillFrom(pairs, i) ==
    IF i > Len(FeatureOrder) THEN pairs
    ELSE IF Present(pairs, FeatureOrder[i]) THEN FillFrom(pairs, i + 1)
    ELSE FillFrom(Append(pairs, Pair(FeatureOrder[i], get_feature_ranges[FeatureOrder[i]])), i + 1)

WithDeclaredDefaults(body) == ObjectBody(FillFrom(body.pairs, 1))

(* -------------------------------- C1 ---------------------------------- *)

\* C1: the artifacts are loaded once at startup; a failed load, whatever its
\* cause, leaves the process serving in degraded mode (both globals None),
\* where every finished predict request carries the model-not-loaded
\* response; neither startup nor a request ends the process.
C1_LoadFailureDegrades ==
    /\ loads <= 1
    /\ proc # "crashed"
    /\ (proc = "serving" /\ loadExc # "") =>
            /\ model = None /\ scaler = None
            /\ \A r \in Clients : Done(r) => reqs[r].resp = NotLoadedResponse

(* -------------------------------- C2 ---------------------------------- *)

\* C2: load_model raises the missing-artifact error exactly when model.pkl or
\* scaler.pkl (or both) is absent from the directory it saw, and then it has
\* opened neither file.
C2_ArtifactMissing ==
    proc # "boot" =>
        /\ (loadExc = "FileNotFoundError")
              <=> (bootFs.model = Absent \/ bootFs.scaler = Absent)
        /\ loadExc = "FileNotFoundError" => opened = {}

\* the load has run on a directory holding model.pkl but not scaler.pkl
C2_Witness ==
    /\ proc = "serving"
    /\ bootFs.model # Absent
    /\ bootFs.scaler = Absent
    /\ loadExc = "FileNotFoundError"

(* -------------------------------- C3 ---------------------------------- *)

\* C3: a loaded scaler has scale[i] > 0 for every i and as many columns as
\* the loaded model has coefficients: artifacts that deserialize but break
\* this are rejected at load, so no request divides by a zero scale.
C3_CorruptRejected ==
    (proc = "serving" /\ Loaded) =>
        /\ \A i \in 1..Len(scaler.scale) : Sign(scaler.scale[i]) > 0
        /\ Len(scaler.mean) = Len(model.coef)
        /\ \A r \in Clients :
              reqs[r].pc = "scaled" =>
                 \A i \in 1..Len(scaler.scale) : Sign(scaler.scale[i]) # 0

(* -------------------------------- C4 ---------------------------------- *)

\* C4: with well-formed artifacts, a finished request on an object body got the response the view gives
\* the same object with every omitted feature name supplied explicitly with
\* the default get_feature_ranges declares for it.
C4_DefaultsPerSchema ==
    \A r \in Clients :
        (Done(r) /\ WellFormed /\ reqs[r].body.kind = "object") =>
            reqs[r].resp = PredictView(model, scaler, WithDeclaredDefaults(reqs[r].body))

(* -------------------------------- C5 ---------------------------------- *)

\* C5: with well-formed artifacts loaded, a finished request whose body holds a
\* present value that float() rejects is a failure whose error names the
\* first such feature; a request with no such value gets no coercion error.
C5_InvalidFeatureValueNamed ==
    \A r \in Clients :
        (Done(r) /\ WellFormed /\ reqs[r].body.kind = "object") =>
            IF BadNames(reqs[r].body.pairs) # {}
            THEN /\ reqs[r].resp.status # 200
                 /\ ~reqs[r].resp.body.success
                 /\ Mentions(reqs[r].resp.body.error, FirstBad(reqs[r].body.pairs))
            ELSE \/ reqs[r].resp.body.success
                 \/ ~Mentions(reqs[r].resp.body.error, "could not convert string to float:")

(* -------------------------------- C6 ---------------------------------- *)

IsDigit(c) == c \in {"0", "1", "2", "3", "4", "5", "6", "7", "8", "9"}

\* C6: with well-formed artifacts, every success response comes from a finite raw prediction and carries
\* a finite price_100k, a finite price_usd and a display made of '$', an
\* optional sign, digits and separators.
C6_SuccessIsFinite ==
    \A r \in Clients :
        (Succeeded(r) /\ WellFormed) =>
            LET p == reqs[r].resp.body.prediction
            IN  /\ IsFinite(reqs[r].prediction)
                /\ IsFinite(p.price_100k)
                /\ IsFinite(p.price_usd)
                /\ \A i \in 2..Len(p.price_formatted) :
                      IsDigit(p.price_formatted[i]) \/ p.price_formatted[i] \in {",", "-"}

(* -------------------------------- C7 ---------------------------------- *)

HasRow(r) == reqs[r].pc \in {"built", "scaled", "predicted"}

\* C7: the feature row built from an object body has, in slot i, the value
\* the mapping gives the i-th training column (0 when omitted), and the
\* response of a finished request is the response the view gives every
\* reordering of the body's members.
C7_OrderIndependent ==
    \A r \in Clients :
        reqs[r].body.kind = "object" =>
            /\ HasRow(r) =>
                  /\ Len(reqs[r].features) = Len(TrainingOrder)
                  /\ \A i \in 1..Len(TrainingOrder) :
                        reqs[r].features[i] = SlotValue(reqs[r].body.pairs, TrainingOrder[i])
            /\ Done(r) =>
                  \A ps \in Orderings(reqs[r].body.pairs) :
                     PredictView(model, scaler, ObjectBody(ps)) = reqs[r].resp

\* a row was built from a body that sends Longitude before MedInc
C7_Witness ==
    /\ HasRow(1)
    /\ Len(reqs[1].body.pairs) = 2
    /\ reqs[1].body.pairs[1][1] = "Longitude"
    /\ reqs[1].body.pairs[2][1] = "MedInc"
    /\ reqs[1].features[1] = Fin(7, 2)
    /\ reqs[1].features[8] = Fin(-239, 2)

(* -------------------------------- C8 ---------------------------------- *)

\* exact fractions <<n, d>>, d > 0, in lowest terms
Q(n, d) ==
    LET g == GCD(Abs(n), Abs(d))
    IN  IF d < 0 THEN <<(0 - n) \div g, (0 - d) \div g>> ELSE <<n \div g, d \div g>>

QOf(x) == Q(x.n, x.d)

QAdd(a, b) == Q(a[1] * b[2] + b[1] * a[2], a[2] * b[2])

QSub(a, b) == Q(a[1] * b[2] - b[1] * a[2], a[2] * b[2])

QMul(a, b) == Q(a[1] * b[1], a[2] * b[2])

QDiv(a, b) == Q(a[1] * b[2], a[2] * b[1])

\* sum over i <= k of ((x[i] - mean[i]) / scale[i]) * weight[i]
RECURSIVE WeightedSum(_, _)
WeightedSum(pairs, k) ==
    IF k = 0 THEN Q(0, 1)
    ELSE QAdd(WeightedSum(pairs, k - 1),
              QMul(QDiv(QSub(QOf(SlotValue(pairs, TrainingOrder[k])), QOf(scaler.mean[k])),
                        QOf(scaler.scale[k])),
                   QOf(model.coef[k])))

RawPrediction(pairs) == QAdd(WeightedSum(pairs, Len(TrainingOrder)), QOf(model.intercept))

\* k is the integer nearest m * q, the even one when two are equally near
Nearest(k, q, m) ==
    LET diff == Abs(m * q[1] - k * q[2])
    IN  /\ 2 * diff <= q[2]
        /\ 2 * diff = q[2] => k % 2 = 0

DigitValue(c) ==
    CASE c = "0" -> 0 [] c = "1" -> 1 [] c = "2" -> 2 [] c = "3" -> 3 [] c = "4" -> 4
      [] c = "5" -> 5 [] c = "6" -> 6 [] c = "7" -> 7 [] c = "8" -> 8 [] c = "9" -> 9

\* a digit string with separators: commas exactly before each full group of
\* three counted from the right, digits elsewhere, no leading zero
WellGrouped(str) ==
    /\ Len(str) >= 1
    /\ \A i \in 1..Len(str) :
          IF (Len(str) - i + 1) % 4 = 0 THEN str[i] = "," ELSE IsDigit(str[i])
    /\ str[1] = "0" => Len(str) = 1

RECURSIVE GroupedValue(_)
GroupedValue(str) ==
    IF str = <<>> THEN 0
    ELSE LET front == SubSeq(str, 1, Len(str) - 1)
             c     == str[Len(str)]
         IN  IF c = "," THEN GroupedValue(front) ELSE 10 * GroupedValue(front) + DigitValue(c)

\* the display is '$', a '-' exactly for a negative dollar amount, then the
\* grouped digits of the magnitude k
Displays(str, k, negative) ==
    LET body == IF negative THEN SubSeq(str, 3, Len(str)) ELSE SubSeq(str, 2, Len(str))
    IN  /\ Len(str) >= 2
        /\ str[1] = "$"
        /\ negative => str[2] = "-"
        /\ WellGrouped(body)
        /\ GroupedValue(body) = Abs(k)

\* C8: with well-formed artifacts, a success whose dollar amount is finite has
\* raw = sum((x[i] - mean[i]) / scale[i] * weight[i]) + intercept, price_100k
\* the hundredth nearest raw, price_usd the integer nearest raw * 100000, and
\* the display '$' with that integer grouped by thousands, negative and large
\* values unclamped; {MedInc: 3.5} on the identity scaler and the unit model
\* gives raw 3.5, 350000 and "$350,000".
C8_PredictionFormula ==
    \A r \in Clients :
        (Succeeded(r) /\ WellFormed /\ IsFinite(reqs[r].resp.body.prediction.price_usd)) =>
            LET p   == reqs[r].resp.body.prediction
                raw == RawPrediction(reqs[r].body.pairs)
            IN  /\ QOf(reqs[r].prediction) = raw
                /\ 100 % p.price_100k.d = 0
                /\ Nearest((p.price_100k.n * 100) \div p.price_100k.d, raw, 100)
                /\ p.price_usd.d = 1
                /\ Nearest(p.price_usd.n, raw, 100000)
                /\ Sign(p.price_usd) = -1 => raw[1] < 0
                /\ Displays(p.price_formatted, p.price_usd.n, raw[1] < 0)
                /\ (/\ model = UnitModel
                    /\ scaler = IdentityScaler
                    /\ reqs[r].body = ObjectBody(<<Pair("MedInc", JNum(7, 2))>>))
                   => /\ reqs[r].prediction = Fin(7, 2)
                      /\ p.price_usd = Num(350000)
                      /\ p.price_formatted = <<"$", "3", "5", "0", ",", "0", "0", "0">>

\* the concrete scenario has been answered
C8_Witness ==
    /\ Succeeded(1)
    /\ model = UnitModel
    /\ scaler = IdentityScaler
    /\ reqs[1].body = ObjectBody(<<Pair("MedInc", JNum(7, 2))>>)
    /\ reqs[1].resp.body.prediction.price_formatted = <<"$", "3", "5", "0", ",", "0", "0", "0">>

(* -------------------------------- C9 ---------------------------------- *)

\* C9: once the process serves, no step of any request changes the loaded
\* model, the loaded scaler or the serving status, and every request that
\* finishes, however its steps interleave with other requests, carries the
\* response the view gives its body when run alone on the loaded artifacts.
C9_NoSharedMutableState ==
    [][/\ proc = "serving" => (model' = model /\ scaler' = scaler /\ proc' = proc)
       /\ \A r \in Clients :
             reqs'[r].pc = "done" =>
                reqs'[r].resp = PredictView(model', scaler', reqs'[r].body)]_vars

\* one request has succeeded while another, with a different body, is
\* between scaling and predicting
C9_Witness ==
    /\ Succeeded(1)
    /\ reqs[2].pc = "scaled"
    /\ reqs[2].body # reqs[1].body

(* -------------------------------- C10 --------------------------------- *)

\* every present member of the object coerces to a double
AllCoercible(pairs) == \A i \in 1..Len(pairs) : pairs[i][1] \in Names => float(pairs[i][2]).ok

\* C10: a finished request has one of three outcomes: in degraded mode the
\* 500 model-not-loaded failure, whatever the body; otherwise 400 with an
\* error text when the body is undecodable, not an object or holds a value
\* that does not coerce (and for any later failure); otherwise 200 with a
\* prediction; success is true exactly when a prediction is present.
C10_ThreeOutcomes ==
    \A r \in Clients :
        Done(r) =>
            LET resp == reqs[r].resp
                body == reqs[r].body
            IN  /\ resp.status \in {200, 400, 500}
                /\ resp.status = 500 <=> ~Loaded
                /\ ~Loaded => resp = NotLoadedResponse
                /\ (Loaded /\ (body.kind # "object" \/ ~AllCoercible(body.pairs)))
                      => resp.status = 400
                /\ resp.status = 200 <=> resp.body.success
                /\ resp.body.success <=> "prediction" \in DOMAIN resp.body
                /\ ~resp.body.success <=> "error" \in DOMAIN resp.body
                /\ DOMAIN resp.body \in {{"success", "prediction"}, {"success", "error"}}

\* a request with an undecodable body was answered in degraded mode
C10_Witness ==
    /\ Done(1)
    /\ ~Loaded
    /\ reqs[1].body = MalformedBody
    /\ reqs[1].resp.status = 500

====
